---- MODULE Spec2Model ----
(***************************************************************************)
(* Model of the copying collector sketch (heap_init, mini_cpgc_malloc,     *)
(* mini_cpgc_free, copy, swap, copying).                                   *)
(*                                                                         *)
(* The repository holds two revisions of the allocator that the model      *)
(* covers, told apart by the variable `rev`: "gc.c" (block header          *)
(* {size, next_free}, descriptor {size, current}, cursor initialised to    *)
(* the descriptor's own address, no collector) and "part_000" (block       *)
(* header {flags, size, next_free}, descriptor {size, current, end},       *)
(* cursor initialised past the descriptor, copy/swap/copying).             *)
(*                                                                         *)
(* Memory is modelled word by word: `mem` maps the byte address of every   *)
(* 8-byte word the program has written to the value it holds.  A word of   *)
(* the two acquired regions that is not in DOMAIN mem is uninitialised.    *)
(* All addresses and sizes are byte quantities, as in the C code           *)
(* (LP64, little-endian: pointers and size_t are 8 bytes wide).            *)
(***************************************************************************)
EXTENDS Integers, Sequences, FiniteSets, TLC

\* ---------------------------------------------------------------- constants
TINY_HEAP_SIZE == 16384
PTRSIZE == 8
FL_ALLOC == 1
FL_FREE == 0
NULL == 0

\* ------------------------------------------------------------------- bounds
MaxAllocs == 3
MaxCycles == 2

\* a request large enough to carry a block past the end of the space
BigRequest == 24 * 16384
\* the size_t value 2^64 - 1, written in two's complement
SizeMax == -1
\* the requests of mini_cpgc_malloc that are tried
Requests == {0, SizeMax, 1, 9, 24, BigRequest}
\* the requests of heap_init that are tried, each with the addresses the bulk
\* memory source returns for the two spaces
InitInputs == {[rev |-> "gc.c", req |-> 0, p1 |-> 65536, p2 |-> 98304],
               [rev |-> "part_000", req |-> 0, p1 |-> 65536, p2 |-> 98304],
               [rev |-> "part_000", req |-> TINY_HEAP_SIZE + 8, p1 |-> 98304, p2 |-> 65536]}

VARIABLES
  rev,         \* the revision of the allocator that runs: "gc.c" or "part_000"
  mem,         \* written words of memory: byte address -> value
  arena,       \* the two regions acquired by heap_init: <<[lo, hi], [lo, hi]>>
  from_start,  \* the global from_start
  to_start,    \* the global to_start
  free_list,   \* the global free_list
  status,      \* "ok", "ub" (undefined behaviour was executed), "hang"
  op,          \* the last call made, its argument and its result
  blocks,      \* history: blocks handed out since the last cycle, in order
  cycle,       \* history: what the last collection cycle did
  nalloc       \* history: number of blocks handed out so far

vars == <<rev, mem, arena, from_start, to_start, free_list, status, op, blocks, cycle, nalloc>>

\* ------------------------------------------------------------------- layout
\* the revision has the flags field, the end field and the collector
HasFlags == rev = "part_000"

\* sizeof(Heap_Header): {size, current} or {size, current, end}
HEAP_HEADER_SIZE == IF HasFlags THEN 3 * PTRSIZE ELSE 2 * PTRSIZE
\* sizeof(Block_Header): {size, next_free} or {flags, size, next_free}
\* (OBJECT_HEADER_SIZE in gc.c)
BLOCK_HEADER_SIZE == IF HasFlags THEN 3 * PTRSIZE ELSE 2 * PTRSIZE

\* field offsets of Heap_Header
HH_SIZE == 0 * PTRSIZE
HH_CURRENT == 1 * PTRSIZE
HH_END == 2 * PTRSIZE
\* field offsets of Block_Header
BH_FLAGS == 0 * PTRSIZE
BH_SIZE == IF HasFlags THEN 1 * PTRSIZE ELSE 0 * PTRSIZE
BH_NEXT == IF HasFlags THEN 2 * PTRSIZE ELSE 1 * PTRSIZE

\* ------------------------------------------------------------------- memory
\* ALIGN(x, a) == (((x) + (a - 1)) & ~(a - 1))
ALIGN(x, a) == ((x + (a - 1)) \div a) * a

Aligned(a) == a % PTRSIZE = 0

\* the word at address a lies inside memory acquired from the bulk source
InArena(ar, a) == \E i \in 1..Len(ar) : ar[i].lo <= a /\ a + PTRSIZE <= ar[i].hi

\* a word that can be accessed without undefined behaviour
Valid(ar, a) == Aligned(a) /\ InArena(ar, a)

\* a word that can be read without undefined behaviour
Readable(m, ar, a) == Valid(ar, a) /\ a \in DOMAIN m

\* store v into the word at a
Wr(m, a, v) == [x \in (DOMAIN m) \cup {a} |-> IF x = a THEN v ELSE m[x]]

\* the word at a becomes indeterminate
Undef(m, a) == [x \in (DOMAIN m) \ {a} |-> m[x]]

\* the Block_Header before ptr: ptr cast to Block_Header pointer, minus 1
HeaderOf(ptr) == ptr - BLOCK_HEADER_SIZE

\* p + 1 for a Block_Header pointer p: the address handed to the caller
PayloadOf(p) == p + BLOCK_HEADER_SIZE

\* from_start->current
Cursor == mem[from_start + HH_CURRENT]

\* the value heap_init gives the cursor of the space whose descriptor is at
\* h: (size_t)(h + 1) in part_000, (size_t)h in gc.c
FirstUsable(h) == IF HasFlags THEN h + HEAP_HEADER_SIZE ELSE h

\* ---------------------------------------------------------------- heap_init
\* from_start + 1 + req_size, pointer arithmetic on a Heap_Header pointer
HeapEnd(h, size) == h + (1 + size) * HEAP_HEADER_SIZE

HeapSize(req) == IF req < TINY_HEAP_SIZE THEN TINY_HEAP_SIZE ELSE req

\* the words heap_init writes into the space whose descriptor is at h
InitSpace(m, h, size) ==
  LET m2 == Wr(Wr(m, h + HH_SIZE, size), h + HH_CURRENT, FirstUsable(h))
  IN IF HasFlags THEN Wr(m2, h + HH_END, HeapEnd(h, size)) ELSE m2

\* malloc(req_size + PTRSIZE + HEAP_HEADER_SIZE) returning p
Region(p, size) == [lo |-> p, hi |-> p + size + PTRSIZE + HEAP_HEADER_SIZE]

\* the history of a run that has not collected yet
NoCycle == [n |-> 0, released |-> {}, live |-> {}, roots |-> {}, copied |-> <<>>,
            oldFrom |-> NULL, oldTo |-> NULL, clean |-> TRUE]

Init ==
  \E in \in InitInputs :
    LET size == HeapSize(in.req)
        f == ALIGN(in.p1, PTRSIZE)
        t == ALIGN(in.p2, PTRSIZE)
    IN /\ rev = in.rev
       /\ arena = <<Region(in.p1, size), Region(in.p2, size)>>
       /\ from_start = f
       /\ to_start = t
       /\ mem = InitSpace(InitSpace(<<>>, f, size), t, size)
       /\ free_list = NULL
       /\ status = "ok"
       /\ op = [name |-> "heap_init", arg |-> in.req, blk |-> NULL, ret |-> NULL]
       /\ blocks = <<>>
       /\ cycle = NoCycle
       /\ nalloc = 0

\* --------------------------------------------------------- mini_cpgc_malloc
\* the rejection test placed after the store of the size instead of before it
MallocNullMut ==
  \E req \in Requests :
    /\ status = "ok"
    /\ ALIGN(req, PTRSIZE) <= 0
    /\ Readable(mem, arena, from_start + HH_CURRENT)
    /\ Valid(arena, Cursor + BH_SIZE)
    /\ mem' = Wr(mem, Cursor + BH_SIZE, ALIGN(req, PTRSIZE))
    /\ op' = [name |-> "malloc", arg |-> req, blk |-> NULL, ret |-> NULL]
    /\ UNCHANGED <<rev, arena, from_start, to_start, free_list, status, blocks, cycle, nalloc>>

\* the call returns NULL: the aligned request is zero (a request of 0, or one
\* so large that req_size + 7 wraps around)
MallocNull ==
  \E req \in Requests :
    /\ status = "ok"
    /\ ALIGN(req, PTRSIZE) <= 0
    /\ op' = [name |-> "malloc", arg |-> req, blk |-> NULL, ret |-> NULL]
    /\ UNCHANGED <<rev, mem, arena, from_start, to_start, free_list, status, blocks, cycle, nalloc>>

\* the memory after the three stores of mini_cpgc_malloc, p the old cursor
MallocStores(m, h, p, size) ==
  LET m1 == Wr(m, p + BH_SIZE, size)
      m2 == IF HasFlags THEN Wr(m1, p + BH_FLAGS, FL_ALLOC) ELSE m1
  IN Wr(m2, h + HH_CURRENT, m2[h + HH_CURRENT] + size)

\* the header at the cursor can be written
MallocDefined(m, ar, h) ==
  /\ Readable(m, ar, h + HH_CURRENT)
  /\ Valid(ar, m[h + HH_CURRENT] + BH_SIZE)
  /\ HasFlags => Valid(ar, m[h + HH_CURRENT] + BH_FLAGS)

MallocOk ==
  \E req \in Requests :
    LET size == ALIGN(req, PTRSIZE)
        p == mem[from_start + HH_CURRENT]
    IN /\ status = "ok"
          /\ nalloc < MaxAllocs
       /\ size > 0
       /\ MallocDefined(mem, arena, from_start)
       /\ mem' = MallocStores(mem, from_start, p, size)
       /\ op' = [name |-> "malloc", arg |-> req, blk |-> p, ret |-> PayloadOf(p)]
       /\ blocks' = Append(blocks, [hdr |-> p, ptr |-> PayloadOf(p), size |-> size, freed |-> FALSE])
       /\ nalloc' = nalloc + 1
       /\ UNCHANGED <<rev, arena, from_start, to_start, free_list, status, cycle>>

\* the cursor does not point into acquired memory: the stores are undefined
MallocUB ==
  \E req \in Requests :
    /\ status = "ok"
    /\ ALIGN(req, PTRSIZE) > 0
    /\ ~MallocDefined(mem, arena, from_start)
    /\ status' = "ub"
    /\ op' = [name |-> "malloc", arg |-> req, blk |-> NULL, ret |-> NULL]
    /\ UNCHANGED <<rev, mem, arena, from_start, to_start, free_list, blocks, cycle, nalloc>>

\* ----------------------------------------------------------- mini_cpgc_free
\* NEXT_HEADER(x) == (Block_Header *)((size_t)(x + 1) + x->size)
NEXT_HEADER(m, x) == x + BLOCK_HEADER_SIZE + m[x + BH_SIZE]

\* the for loop that searches the join point of target, started at hit:
\* the member it stops at, "hang" when the loop never exits, "ub" when it
\* dereferences a pointer that is not a readable word
RECURSIVE FreeSearch(_, _, _, _, _)
FreeSearch(m, ar, target, hit, seen) ==
  IF ~Readable(m, ar, hit + BH_NEXT) THEN [st |-> "ub", hit |-> hit]
  ELSE LET nx == m[hit + BH_NEXT] IN
       IF target > hit /\ target < nx THEN [st |-> "ok", hit |-> hit]
       ELSE IF hit >= nx /\ (target > hit \/ target < nx) THEN [st |-> "ok", hit |-> hit]
       ELSE IF nx \in seen \cup {hit} THEN [st |-> "hang", hit |-> hit]
       ELSE FreeSearch(m, ar, target, nx, seen \cup {hit})

\* the branch taken when free_list == NULL, with NULL stored in next_free
FreeEmptyStoresMut(m, target) ==
  LET m1 == Wr(m, target + BH_NEXT, NULL)
  IN IF HasFlags THEN Wr(m1, target + BH_FLAGS, FL_FREE) ELSE m1

\* the branch taken when free_list == NULL
FreeEmptyStores(m, target) ==
  LET m1 == Wr(m, target + BH_NEXT, target)
  IN IF HasFlags THEN Wr(m1, target + BH_FLAGS, FL_FREE) ELSE m1

\* first if/else of the insertion: merge target with hit->next_free, or link
\* target before it.  Each statement re-reads memory, as the headers of
\* different blocks can share words.
FreeJoinNext(m, ar, target, hit) ==
  IF ~(Readable(m, ar, target + BH_SIZE) /\ Readable(m, ar, hit + BH_NEXT))
  THEN [st |-> "ub", m |-> m]
  ELSE IF NEXT_HEADER(m, target) = m[hit + BH_NEXT]
  THEN IF ~Readable(m, ar, m[hit + BH_NEXT] + BH_SIZE) THEN [st |-> "ub", m |-> m]
       ELSE LET m1 == Wr(m, target + BH_SIZE,
                         m[target + BH_SIZE] + (m[m[hit + BH_NEXT] + BH_SIZE] + BLOCK_HEADER_SIZE))
            IN IF ~(Readable(m1, ar, hit + BH_NEXT) /\ Readable(m1, ar, m1[hit + BH_NEXT] + BH_NEXT))
               THEN [st |-> "ub", m |-> m1]
               ELSE [st |-> "ok", m |-> Wr(m1, target + BH_NEXT, m1[m1[hit + BH_NEXT] + BH_NEXT])]
  ELSE [st |-> "ok", m |-> Wr(m, target + BH_NEXT, m[hit + BH_NEXT])]

\* second if/else of the insertion: merge target into hit, or link hit to it
FreeJoinPrev(m, ar, target, hit) ==
  IF ~Readable(m, ar, hit + BH_SIZE) THEN [st |-> "ub", m |-> m]
  ELSE IF NEXT_HEADER(m, hit) = target
  THEN IF ~Readable(m, ar, target + BH_SIZE) THEN [st |-> "ub", m |-> m]
       ELSE LET m1 == Wr(m, hit + BH_SIZE,
                         m[hit + BH_SIZE] + (m[target + BH_SIZE] + BLOCK_HEADER_SIZE))
            IN IF ~Readable(m1, ar, target + BH_NEXT) THEN [st |-> "ub", m |-> m1]
               ELSE [st |-> "ok", m |-> Wr(m1, hit + BH_NEXT, m1[target + BH_NEXT])]
  ELSE [st |-> "ok", m |-> Wr(m, hit + BH_NEXT, target)]

\* mini_cpgc_free(ptr) as a whole: the outcome, the memory and the free-list
\* root it leaves
FreeResult(m, ar, fl, ptr) ==
  LET target == HeaderOf(ptr) IN
  IF fl = NULL
  THEN IF Valid(ar, target + BH_NEXT)
       THEN [st |-> "ok", m |-> FreeEmptyStores(m, target), fl |-> target]
       ELSE [st |-> "ub", m |-> m, fl |-> fl]
  ELSE LET s == FreeSearch(m, ar, target, fl, {}) IN
       IF s.st # "ok" THEN [st |-> s.st, m |-> m, fl |-> fl]
       ELSE LET j1 == FreeJoinNext(m, ar, target, s.hit) IN
            IF j1.st # "ok" THEN [st |-> "ub", m |-> j1.m, fl |-> fl]
            ELSE LET j2 == FreeJoinPrev(j1.m, ar, target, s.hit) IN
                 IF j2.st # "ok" THEN [st |-> "ub", m |-> j2.m, fl |-> fl]
                 ELSE [st |-> "ok", m |-> j2.m, fl |-> s.hit]

MarkFreed(bs, i) == [bs EXCEPT ![i].freed = TRUE]

\* a release of a block handed out by mini_cpgc_malloc and not yet released
Free ==
  \E i \in 1..Len(blocks) :
    LET ptr == blocks[i].ptr
        r == FreeResult(mem, arena, free_list, ptr)
    IN /\ status = "ok"
          /\ ~blocks[i].freed
       /\ r.st = "ok"
       /\ mem' = r.m
       /\ free_list' = r.fl
       /\ op' = [name |-> "free", arg |-> ptr, blk |-> HeaderOf(ptr), ret |-> NULL]
       /\ blocks' = MarkFreed(blocks, i)
       /\ UNCHANGED <<rev, arena, from_start, to_start, status, cycle, nalloc>>

\* a release that dereferences a corrupted link or never leaves the search
FreeFails ==
  \E i \in 1..Len(blocks) :
    LET ptr == blocks[i].ptr
        r == FreeResult(mem, arena, free_list, ptr)
    IN /\ status = "ok"
          /\ ~blocks[i].freed
       /\ r.st # "ok"
       /\ status' = r.st
       /\ op' = [name |-> "free", arg |-> ptr, blk |-> HeaderOf(ptr), ret |-> NULL]
       /\ UNCHANGED <<rev, mem, arena, from_start, to_start, free_list, blocks, cycle, nalloc>>

\* ------------------------------------------------------------- copy, copying
\* the most significant byte of a 64-bit word, and its other seven bytes
Byte7(v) == (((v \div 65536) \div 65536) \div 65536) \div 256
Low7(v) == v - Byte7(v) * 65536 * 65536 * 65536 * 256

\* the byte range [a, a + n) lies inside one acquired region
RangeInArena(ar, a, n) == \E i \in 1..Len(ar) : ar[i].lo <= a /\ a + n <= ar[i].hi

\* memcpy(dst, src, n) for a word-aligned src and a multiple n of the word
\* size.  When dst is one byte past a word boundary every destination word
\* takes its low byte from the top byte of the previous source word (the first
\* one keeps its own low byte) and its other bytes from the source word, and
\* the word after the last takes one byte.  A destination word that receives
\* bytes of an uninitialised source word is uninitialised.
Memcpy(m, ar, dst, src, n) ==
  LET nw == n \div PTRSIZE
      sh == dst % PTRSIZE
      base == dst - sh
      S(k) == src + PTRSIZE * k
      D(k) == base + PTRSIZE * k
      SDef(k) == S(k) \in DOMAIN m
      KOf(x) == (x - base) \div PTRSIZE
      Touched == IF sh = 0 THEN {D(k) : k \in 0..(nw - 1)} ELSE {D(k) : k \in 0..nw}
      Def(k) == IF sh = 0 THEN SDef(k)
                ELSE IF k = 0 THEN D(0) \in DOMAIN m /\ SDef(0)
                ELSE IF k = nw THEN D(nw) \in DOMAIN m /\ SDef(nw - 1)
                ELSE SDef(k - 1) /\ SDef(k)
      Val(k) == IF sh = 0 THEN m[S(k)]
                ELSE IF k = 0 THEN (m[D(0)] % 256) + 256 * Low7(m[S(0)])
                ELSE IF k = nw THEN (m[D(nw)] \div 256) * 256 + Byte7(m[S(nw - 1)])
                ELSE Byte7(m[S(k - 1)]) + 256 * Low7(m[S(k)])
      NewDom == ((DOMAIN m) \ Touched) \cup {x \in Touched : Def(KOf(x))}
  IN IF \/ sh \notin {0, 1}
        \/ ~Aligned(src)
        \/ ~RangeInArena(ar, src, n)
        \/ ~RangeInArena(ar, dst, n)
        \/ (src < dst + n /\ dst < src + n)
     THEN [st |-> "ub", m |-> m]
     ELSE [st |-> "ok",
           m |-> [x \in NewDom |-> IF x \in Touched THEN Val(KOf(x)) ELSE m[x]]]

\* copy(from_block, pfree): the memcpy; the advance of pfree is made on the
\* callee's own copy of the pointer and is lost on return
copy(m, ar, from_block, pfree) ==
  IF ~Readable(m, ar, from_block + BH_SIZE) THEN [st |-> "ub", m |-> m]
  ELSE Memcpy(m, ar, pfree, from_block, BLOCK_HEADER_SIZE + m[from_block + BH_SIZE])

\* (void *)to_start + 1: one byte past the descriptor's address
PFreeInit(t) == t + 1

\* (Block_Header *)from_start + 1: one block header past the descriptor
ScanStart(f) == f + BLOCK_HEADER_SIZE

\* no written word of the region of p lies at or after p
PastWritten(m, ar, p) ==
  \A a \in DOMAIN m : ~(a >= p /\ \E i \in 1..Len(ar) : ar[i].lo <= p /\ p < ar[i].hi /\ a < ar[i].hi)

\* an uninitialised word of fresh memory, read as zero
Rd0(m, a) == IF a \in DOMAIN m THEN m[a] ELSE 0

\* the for loop of copying() from block p on.  st is "ok" when the loop ran to
\* its end, "ub" when it executed undefined behaviour, "tail" when it walked
\* off the written part of the space into uninitialised or foreign memory;
\* assumed records that an uninitialised header word was read (as zero).
RECURSIVE Scan(_, _, _, _, _, _, _)
Scan(m, ar, f, pfree, p, copied, assumed) ==
  LET R(st) == [st |-> st, m |-> m, copied |-> copied, assumed |-> assumed] IN
  IF ~Readable(m, ar, f + HH_END) THEN R("ub")
  ELSE IF ~(p < m[f + HH_END]) THEN R("ok")
  ELSE IF ~Aligned(p) THEN R("ub")
  ELSE IF ~(InArena(ar, p + BH_FLAGS) /\ InArena(ar, p + BH_SIZE)) THEN R("tail")
  ELSE IF PastWritten(m, ar, p) THEN R("tail")
  ELSE LET unin == ~(p + BH_FLAGS \in DOMAIN m /\ p + BH_SIZE \in DOMAIN m)
       IN IF Rd0(m, p + BH_FLAGS) = FL_ALLOC
          THEN LET c == IF unin THEN [st |-> "ub", m |-> m] ELSE copy(m, ar, p, pfree)
               IN IF c.st # "ok" THEN R("ub")
                  ELSE Scan(c.m, ar, f, pfree, NEXT_HEADER(c.m, p),
                            Append(copied, [src |-> p, dst |-> pfree, size |-> m[p + BH_SIZE]]),
                            assumed)
          ELSE Scan(m, ar, f, pfree, p + BLOCK_HEADER_SIZE + Rd0(m, p + BH_SIZE),
                    copied, assumed \/ unin)

\* the scan of copying() as a whole
ScanResult(m, ar, f, t) == Scan(m, ar, f, PFreeInit(t), ScanStart(f), <<>>, FALSE)

Released(bs) == {bs[i].hdr : i \in {j \in 1..Len(bs) : bs[j].freed}}
Unreleased(bs) == {bs[i].hdr : i \in {j \in 1..Len(bs) : ~bs[j].freed}}

\* the root sets the mutator may hold when a cycle starts: every block it has
\* not released, or none of them.  copying() takes no argument and reads no
\* root: the set is history only.
RootSets(bs) == {Unreleased(bs), {}}

\* copying(): the scan ran to the end of the space, then swap().  When the
\* scan left the written part of the space, this is the outcome in which
\* every header it read there was not flagged FL_ALLOC.
Copying ==
  \E roots \in RootSets(blocks) :
  LET r == ScanResult(mem, arena, from_start, to_start) IN
    /\ status = "ok"
    /\ HasFlags
    /\ cycle.n < MaxCycles
    /\ r.st \in {"ok", "tail"}
    /\ mem' = r.m
    /\ from_start' = to_start
    /\ to_start' = from_start
    /\ free_list' = NULL
    /\ op' = [name |-> "copying", arg |-> NULL, blk |-> NULL, ret |-> NULL]
    /\ blocks' = <<>>
    /\ cycle' = [n |-> cycle.n + 1, released |-> Released(blocks),
                 live |-> Unreleased(blocks), roots |-> roots, copied |-> r.copied,
                 oldFrom |-> from_start, oldTo |-> to_start,
                 clean |-> (cycle.clean /\ r.st = "ok" /\ ~r.assumed)]
    /\ UNCHANGED <<rev, arena, status, nalloc>>

\* copying(): the scan executed undefined behaviour (a misaligned or foreign
\* header, an uninitialised header, a memcpy outside the acquired memory)
CopyingUB ==
  LET r == ScanResult(mem, arena, from_start, to_start) IN
    /\ status = "ok"
    /\ HasFlags
    /\ cycle.n < MaxCycles
    /\ (r.st \in {"ub", "tail"} \/ r.assumed)
    /\ status' = "ub"
    /\ op' = [name |-> "copying", arg |-> NULL, blk |-> NULL, ret |-> NULL]
    /\ UNCHANGED <<rev, mem, arena, from_start, to_start, free_list, blocks, cycle, nalloc>>

Next ==
  \/ MallocNull
  \/ MallocOk
  \/ MallocUB
  \/ Free
  \/ FreeFails
  \/ Copying
  \/ CopyingUB

Spec == Init /\ [][Next]_vars

\* ------------------------------------------------------ free list, as stored
\* the members met by following next_free from the root, and whether the walk
\* comes back to the root
RECURSIVE FreeListWalk(_, _, _, _, _)
FreeListWalk(m, ar, root, cur, members) ==
  IF ~Readable(m, ar, cur + BH_NEXT) THEN [circular |-> FALSE, members |-> members]
  ELSE LET nx == m[cur + BH_NEXT] IN
       IF nx = root THEN [circular |-> TRUE, members |-> members]
       ELSE IF nx \in members THEN [circular |-> FALSE, members |-> members]
       ELSE FreeListWalk(m, ar, root, nx, members \cup {nx})

FreeList == IF free_list = NULL THEN [circular |-> TRUE, members |-> {}]
            ELSE FreeListWalk(mem, arena, free_list, free_list, {free_list})

\* ------------------------------------------------------------------- claims
\* the walk address -> address + headerSize + header.size from a reaches cur
\* exactly
RECURSIVE WalkLands(_, _, _, _)
WalkLands(m, ar, a, cur) ==
  IF a = cur THEN TRUE
  ELSE IF a > cur THEN FALSE
  ELSE IF ~Readable(m, ar, a + BH_SIZE) THEN FALSE
  ELSE WalkLands(m, ar, NEXT_HEADER(m, a), cur)

\* C1: while no collection has run, walking the active space from its first
\* usable address by address -> address + headerSize + header.size lands
\* exactly on the cursor.
C1_NoGapCoverage ==
  (status = "ok" /\ cycle.n = 0) =>
    WalkLands(mem, arena, FirstUsable(from_start), Cursor)

\* C2: every allocation that returns a block leaves the cursor of the active
\* space no lower than it was before the call.
C2_CursorNonDecreasing ==
  [][(nalloc' = nalloc + 1) => Cursor' >= Cursor]_vars

\* the members of the stored free list at which the address order wraps
WrapPoints(m, members) == {x \in members : x >= m[x + BH_NEXT]}

\* C3: when the only released blocks are two distinct blocks handed out one
\* right after the other, the free list has exactly one entry, whose size is the
\* sum of the two sizes plus the size of one block header.
C3_Coalescing ==
  status = "ok" =>
    \A i \in 1..(Len(blocks) - 1) :
      ( /\ blocks[i].freed /\ blocks[i + 1].freed
        /\ blocks[i].hdr # blocks[i + 1].hdr
        /\ Released(blocks) = {blocks[i].hdr, blocks[i + 1].hdr} ) =>
        /\ FreeList.circular
        /\ Cardinality(FreeList.members) = 1
        /\ \A x \in FreeList.members :
             mem[x + BH_SIZE] = blocks[i].size + blocks[i + 1].size + BLOCK_HEADER_SIZE

\* C4: whenever the free list is not empty, following next_free from the
\* root comes back to the root.
C4_Circular ==
  (status = "ok" /\ free_list # NULL) => FreeList.circular

\* C5: a free list that is circular is ordered by address around the circle,
\* with exactly one wrap-around point, and no member is immediately followed
\* in memory by another member.
C5_Shape ==
  (status = "ok" /\ free_list # NULL /\ FreeList.circular) =>
    /\ Cardinality(WrapPoints(mem, FreeList.members)) = 1
    /\ \A x \in FreeList.members :
         Readable(mem, arena, x + BH_SIZE) /\ NEXT_HEADER(mem, x) \notin FreeList.members

\* C6: a release leaves the header of the released block flagged FL_FREE, and
\* an allocation returns a block whose header is flagged FL_ALLOC.
C6_Flags ==
  status = "ok" =>
    /\ (HasFlags /\ op.name = "free") => mem[op.blk + BH_FLAGS] = FL_FREE
    /\ (HasFlags /\ op.name = "malloc" /\ op.ret # NULL) =>
         mem[op.blk + BH_FLAGS] = FL_ALLOC

\* the bytes the blocks of a list of copies take, headers included
RECURSIVE CopiedBytes(_)
CopiedBytes(cs) ==
  IF cs = <<>> THEN 0
  ELSE BLOCK_HEADER_SIZE + Head(cs).size + CopiedBytes(Tail(cs))

\* the end of the acquired region that holds the descriptor h
RegionEnd(ar, h) == IF ar[1].lo <= h /\ h < ar[1].hi THEN ar[1].hi ELSE ar[2].hi

\* C7: no block that had been released when the cycle began was copied by
\* the cycle (stated for the cycles whose scan executed no undefined
\* behaviour).
C7_ReleasedNotCopied ==
  (status = "ok" /\ cycle.n > 0 /\ cycle.clean) =>
    \A k \in 1..Len(cycle.copied) : cycle.copied[k].src \notin cycle.released

\* C8: right after a cycle every block that was live when it began has a copy
\* inside the new active space, and of two survivors the one that had the
\* lower address has the copy with the lower address (stated for the cycles
\* whose scan executed no undefined behaviour).
C8_CompactionOrder ==
  (status = "ok" /\ op.name = "copying" /\ cycle.clean) =>
    /\ \A b \in cycle.live :
         \E k \in 1..Len(cycle.copied) :
           /\ cycle.copied[k].src = b
           /\ FirstUsable(from_start) <= cycle.copied[k].dst
           /\ cycle.copied[k].dst + BLOCK_HEADER_SIZE + cycle.copied[k].size
                <= RegionEnd(arena, from_start)
    /\ \A j, k \in 1..Len(cycle.copied) :
         cycle.copied[j].src < cycle.copied[k].src =>
           cycle.copied[j].dst < cycle.copied[k].dst

\* C9: right after a cycle the cursor of the new active space is its first
\* usable address plus the bytes of the blocks the cycle copied (stated for
\* the cycles whose scan executed no undefined behaviour).
C9_CursorAfterCycle ==
  (status = "ok" /\ op.name = "copying" /\ cycle.clean) =>
    /\ Readable(mem, arena, from_start + HH_CURRENT)
    /\ Cursor = FirstUsable(from_start) + CopiedBytes(cycle.copied)

\* C10: right after a cycle the two spaces have exchanged their roles, the
\* free list is empty and the cursor of the new reserve space is back at its
\* first usable address (stated for the cycles whose scan executed no
\* undefined behaviour).
C10_Swap ==
  (status = "ok" /\ op.name = "copying" /\ cycle.clean) =>
    /\ from_start = cycle.oldTo
    /\ to_start = cycle.oldFrom
    /\ free_list = NULL
    /\ Readable(mem, arena, to_start + HH_CURRENT)
    /\ mem[to_start + HH_CURRENT] = FirstUsable(to_start)

SpaceEnd(m, ar, h) == IF HasFlags THEN m[h + HH_END] ELSE RegionEnd(ar, h)

\* C12: while no collection has run, the cursor of the active space lies
\* between its first usable address and its end.
C12_Bounds ==
  (status = "ok" /\ cycle.n = 0) =>
    /\ FirstUsable(from_start) <= Cursor
    /\ Cursor <= SpaceEnd(mem, arena, from_start)

\* C13: every call made so far has returned: none ran into a search loop that
\* never exits, and none executed undefined behaviour, after which neither
\* its return nor, for copying(), the swap is guaranteed.
C13_Termination == status = "ok"

\* what C14 says of the space whose descriptor is at h, right after
\* heap_init(req)
InitialisedAsSaid(m, ar, h, req) ==
  /\ m[h + HH_SIZE] = (IF req > TINY_HEAP_SIZE THEN req ELSE TINY_HEAP_SIZE)
  /\ m[h + HH_CURRENT] = FirstUsable(h)
  /\ HasFlags => /\ m[h + HH_END] - FirstUsable(h) = m[h + HH_SIZE]
                 /\ m[h + HH_END] <= RegionEnd(ar, h)

\* C14: right after heap_init both spaces have the size max(request,
\* TINY_HEAP_SIZE), each cursor is at the first usable address of its space,
\* and each end is size bytes after that address, inside the memory acquired
\* for the space.
C14_Initialization ==
  op.name = "heap_init" =>
    /\ InitialisedAsSaid(mem, arena, from_start, op.arg)
    /\ InitialisedAsSaid(mem, arena, to_start, op.arg)

\* the least multiple of the pointer size that is >= n
AlignedSize(n) == CHOOSE k \in n..(n + PTRSIZE - 1) : k % PTRSIZE = 0

\* C15: every allocation that returns a block advances the cursor by the
\* aligned size of its request, and the one made right after heap_init
\* returns the first usable address of the active space.
C15_FirstAllocation ==
  [][(nalloc' = nalloc + 1) =>
       /\ Cursor' = Cursor + AlignedSize(op'.arg)
       /\ op.name = "heap_init" => op'.ret = FirstUsable(from_start)]_vars

\* C16: a release made while the free list is empty leaves the header of the
\* released block, which lies one header size before the released address, as
\* the root and only member of the free list, its next_free pointing to
\* itself.
C16_SingleRelease ==
  [][(status = "ok" /\ free_list = NULL /\ op'.name = "free" /\ blocks' # blocks) =>
       /\ status' = "ok"
       /\ free_list' = op'.arg - BLOCK_HEADER_SIZE
       /\ Readable(mem', arena, free_list' + BH_NEXT)
       /\ mem'[free_list' + BH_NEXT] = free_list'
       /\ FreeList'.circular
       /\ FreeList'.members = {free_list'}]_vars

\* the only release made so far, of one of several blocks handed out
C16_Witness ==
  /\ status = "ok" /\ op.name = "free"
  /\ Cardinality({i \in 1..Len(blocks) : blocks[i].freed}) = 1
  /\ Len(blocks) >= 2
  /\ free_list = op.blk

\* the fields of the descriptor at h that C17 says no allocation and no
\* release changes
FrameFields(m, h) ==
  <<m[h + HH_SIZE], IF HasFlags THEN m[h + HH_END] ELSE NULL>>

\* C17: before any collection, a call of mini_cpgc_malloc or mini_cpgc_free changes neither the size
\* nor the end field of either descriptor, nor the cursor of the reserve
\* space; a call of mini_cpgc_free does not change the cursor of the active
\* space, and a call of mini_cpgc_malloc that returns NULL does not either.
C17_DescriptorFrame ==
  [][(status = "ok" /\ status' = "ok" /\ cycle.n = 0 /\ op'.name \in {"malloc", "free"}) =>
       /\ FrameFields(mem', from_start) = FrameFields(mem, from_start)
       /\ FrameFields(mem', to_start) = FrameFields(mem, to_start)
       /\ mem'[to_start + HH_CURRENT] = mem[to_start + HH_CURRENT]
       /\ (op'.name = "free" \/ op'.ret = NULL) => Cursor' = Cursor]_vars

\* C18: a block that was not released but was not in the root set when the
\* cycle began has no copy made by the cycle (stated for the cycles whose scan
\* executed no undefined behaviour).
C18_UnreachableAbsent ==
  (status = "ok" /\ op.name = "copying" /\ cycle.clean) =>
    \A k \in 1..Len(cycle.copied) :
      cycle.copied[k].src \notin (cycle.live \ cycle.roots)

\* the byte ranges [a, a + n) and [b, b + k) have a byte in common
Overlap(a, n, b, k) == a < b + k /\ b < a + n

\* C19: the regions, header and payload, of two blocks that were handed out
\* and not released have no byte in common, and none has a byte in common
\* with the descriptor of the active space.
C19_NoOverlap ==
  status = "ok" =>
    \A i, j \in 1..Len(blocks) :
      (~blocks[i].freed /\ ~blocks[j].freed) =>
        /\ i # j => ~Overlap(blocks[i].hdr, BLOCK_HEADER_SIZE + blocks[i].size,
                             blocks[j].hdr, BLOCK_HEADER_SIZE + blocks[j].size)
        /\ ~Overlap(blocks[i].hdr, BLOCK_HEADER_SIZE + blocks[i].size,
                    from_start, HEAP_HEADER_SIZE)

\* C20: in a cycle the k-th copy is placed at the first usable address of the
\* reserve space, which the swap has made the active space, plus the bytes of
\* the copies made before it; it ends before the end of that space and has no
\* byte in common with its descriptor nor with another copy (stated for the
\* cycles whose scan executed no undefined behaviour).
C20_Placement ==
  (status = "ok" /\ op.name = "copying" /\ cycle.clean) =>
    \A k \in 1..Len(cycle.copied) :
      LET c == cycle.copied[k]
          n == BLOCK_HEADER_SIZE + c.size
      IN /\ c.dst = FirstUsable(from_start) + CopiedBytes(SubSeq(cycle.copied, 1, k - 1))
         /\ c.dst + n <= RegionEnd(arena, from_start)
         /\ ~Overlap(c.dst, n, from_start, HEAP_HEADER_SIZE)
         /\ \A j \in 1..(k - 1) :
              ~Overlap(c.dst, n, cycle.copied[j].dst,
                       BLOCK_HEADER_SIZE + cycle.copied[j].size)

\* the two exits of the search loop of mini_cpgc_free: t lies between hit and
\* hit->next_free, or hit is the wrap-around member and t lies beyond it
Bracket(m, hit, t) ==
  LET nx == m[hit + BH_NEXT]
  IN (hit < t /\ t < nx) \/ (hit >= nx /\ (t > hit \/ t < nx))

\* the stored free list is circular and ordered by address, with one
\* wrap-around point
ListOrdered ==
  /\ free_list # NULL
  /\ FreeList.circular
  /\ Cardinality(WrapPoints(mem, FreeList.members)) = 1

\* the member x of the free list, with the size its header holds, covers the
\* n payload bytes and the header of the block at t
Covers(m, ar, x, t, n) ==
  /\ Readable(m, ar, x + BH_SIZE)
  /\ x <= t
  /\ t + BLOCK_HEADER_SIZE + n <= x + BLOCK_HEADER_SIZE + m[x + BH_SIZE]

\* C21: a release of a block that is not on a free list which is circular
\* and ordered by address returns, exactly one member brackets the block, the
\* free-list root after the call is that member, and exactly one member of the
\* list then covers the memory of the released block.
C21_InsertionPoint ==
  [][(/\ status = "ok" /\ op'.name = "free"
      /\ (blocks' # blocks \/ status' # status)
      /\ ListOrdered
      /\ op'.blk \notin FreeList.members) =>
       /\ status' = "ok"
       /\ Cardinality({h \in FreeList.members : Bracket(mem, h, op'.blk)}) = 1
       /\ free_list' \in FreeList.members
       /\ Bracket(mem, free_list', op'.blk)
       /\ \A i \in 1..Len(blocks) :
            (~blocks[i].freed /\ blocks'[i].freed) =>
              Cardinality({x \in FreeList'.members :
                             Covers(mem', arena, x, blocks[i].hdr, blocks[i].size)}) = 1]_vars
====
